---- MODULE Spec2Model ----
(***************************************************************************)
(* RealReview backend: POST /upload, GET /images/, GET /images/{id}.       *)
(*                                                                         *)
(* State: the image_metadata table, the files under UPLOAD_DIR, the      *)
(* database clock and id sequence, the open database sessions, and the    *)
(* position and locals of every HTTP request in flight.                    *)
(*                                                                         *)
(* Strings that the code takes apart (file names) are sequences of        *)
(* one-character strings; str(uuid.uuid4()) is one token of the sequence.  *)
(* uuid.uuid4() is modelled by its contract: a value that was never       *)
(* returned before and that no client can name in advance.                 *)
(* The table is read through SQL without ORDER BY, so every query sees    *)
(* the rows in an order the database picks for that query.                *)
(* db.commit is three round trips (BEGIN, INSERT, COMMIT) and db.refresh  *)
(* a fourth; other requests run in between. The INSERT takes the id from  *)
(* the sequence, the COMMIT makes the row visible: rows need not become   *)
(* visible in id order, and a committed row is visible to other requests  *)
(* before the upload is answered.                                         *)
(* File opens, file writes and database round trips may fail; a failure   *)
(* of a query in a handler without try/except is answered 500.            *)
(***************************************************************************)
EXTENDS Integers, Sequences, FiniteSets, TLC

VARIABLES
    store,      \* rows of table image_metadata (a set of records)
    nextId,     \* next value of the primary-key sequence
    now,        \* database clock, read by server_default=func.now()
    files,      \* UPLOAD_DIR: function from stored file name to content
    issued,     \* uuid tokens uuid4() has returned so far
    sessions,   \* database sessions that are open
    req,        \* per request slot: position, inputs, locals, response
    created     \* history: what every successful create returned, and the form

vars == <<store, nextId, now, files, issued, sessions, req, created>>

(***************************** bounds *************************************)
NumReqs == 2        \* requests in flight at the same time
NumUuids == 2       \* uploads that reach uuid4()
MaxClock == 1       \* database clock values 0..MaxClock
MaxPage == 1        \* GET /images/ with skip in 0..MaxPage, limit in 1..MaxPage

Reqs == 1..NumReqs
UUIDS == {"u" \o ToString(i) : i \in 1..NumUuids}

\* Python None / SQL NULL
NULL == "NULL"

\* the multipart forms the clients post: file name, file bytes, and the two
\* optional fields (NULL: the field is not in the form)
Form(f, c, u, l) == [filename |-> f, content |-> c, uploader_name |-> u, location |-> l]
Forms ==
    { Form(<<"c", ".", "j">>, <<1>>, "Ana", "Lisbon"),
      Form(<<"c", ".", "j">>, <<2, 1>>, NULL, NULL),
      Form(<<".", "j">>, <<1>>, NULL, "Lisbon") }

(************************* pure helpers ***********************************)
Max(S) == CHOOSE m \in S : \A x \in S : x <= m
Min(S) == CHOOSE m \in S : \A x \in S : m <= x

\* str.rfind: index of the last occurrence (1-based), 0 when there is none
rfind(p, ch) ==
    LET I == {i \in 1..Len(p) : p[i] = ch}
    IN IF I = {} THEN 0 ELSE Max(I)

\* os.path.splitext (posixpath -> genericpath._splitext): the extension
\* starts at the last dot after the last "/", unless the name before that
\* dot consists of dots only (leading dots are not an extension).
\* (faulty variant: everything from the last dot on is the extension)
splitext_last_dot(p) ==
    LET dotIndex == rfind(p, ".")
    IN IF dotIndex > 0
       THEN <<SubSeq(p, 1, dotIndex - 1), SubSeq(p, dotIndex, Len(p))>>
       ELSE <<p, <<>>>>
splitext(p) ==
    LET sepIndex == rfind(p, "/")
        dotIndex == rfind(p, ".")
    IN IF /\ dotIndex > sepIndex
          /\ \E i \in (sepIndex + 1)..(dotIndex - 1) : p[i] # "."
       THEN <<SubSeq(p, 1, dotIndex - 1), SubSeq(p, dotIndex, Len(p))>>
       ELSE <<p, <<>>>>

\* (faulty variant: the file is stored under the name the client gave)
unique_filename_original(u, original) == original
\* crud.save_image_file: unique_filename = f"{uuid.uuid4()}{file_extension}"
unique_filename(u, original) == <<u>> \o splitext(original)[2]

\* (faulty variant: a generator that can return a value again)
uuid4_repeat(used) == UUIDS
\* uuid.uuid4(): the values it can return next, given those it has returned
\* (the tokens are named in the order in which they are generated)
uuid4(used) == {"u" \o ToString(i) : i \in {Cardinality(used) + 1} \cap (1..NumUuids)}

\* open(file_path, "wb"): the file exists and is empty
open_wb(fs, name) ==
    [n \in DOMAIN fs \cup {name} |-> IF n = name THEN <<>> ELSE fs[n]]

\* shutil.copyfileobj(upload_file.file, buffer) from position 0, then close
copyfileobj(fs, name, content) ==
    [n \in DOMAIN fs \cup {name} |-> IF n = name THEN content ELSE fs[n]]

\* what the file holds when the copy (or the close) raises: the bytes written
\* so far, which is any prefix, the whole content included when the error
\* comes after the last byte
PartialWrites(content) == {SubSeq(content, 1, k) : k \in 0..Len(content)}

\* (faulty variants: a placeholder for a missing uploader_name; filename and
\* original_filename passed the wrong way round)
ImageMetadata_placeholder(id, filename, original_filename, uploader_name, location, ts) ==
    [id |-> id, filename |-> filename, original_filename |-> original_filename,
     uploader_name |-> IF uploader_name = NULL THEN "Anonymous" ELSE uploader_name,
     location |-> location, upload_timestamp |-> ts]
ImageMetadata_swapped(id, filename, original_filename, uploader_name, location, ts) ==
    [id |-> id, filename |-> original_filename, original_filename |-> filename,
     uploader_name |-> uploader_name, location |-> location, upload_timestamp |-> ts]
\* models.ImageMetadata(...) as built by crud.create_image_metadata, with the
\* database-generated id and upload_timestamp that db.refresh reads back
ImageMetadata(id, filename, original_filename, uploader_name, location, ts) ==
    [id |-> id, filename |-> filename, original_filename |-> original_filename,
     uploader_name |-> uploader_name, location |-> location,
     upload_timestamp |-> ts]

\* (faulty variant: the insert drops the row stored just before)
insert_replace(table, row) == {x \in table : x.id + 1 # row.id} \cup {row}
\* the table once the transaction that inserted `row` is committed
insert(table, row) == table \cup {row}

\* the primary key and the UNIQUE constraint on image_metadata.filename
violates_unique(table, row) ==
    \E x \in table : x.filename = row.filename \/ x.id = row.id

\* the orders in which a SELECT without ORDER BY can deliver the rows
RowOrders(table) ==
    {s \in [1..Cardinality(table) -> table] :
        \A i, j \in 1..Cardinality(table) : i # j => s[i] # s[j]}

\* .offset(skip).limit(limit) applied to the delivered rows
offset_limit(rows, skip, limit) ==
    SubSeq(rows, skip + 1, IF skip + limit < Len(rows) THEN skip + limit ELSE Len(rows))

\* crud.get_images_metadata: the results the query can return
get_images_metadata(table, skip, limit) ==
    {offset_limit(rows, skip, limit) : rows \in RowOrders(table)}

\* crud.get_image_metadata: .filter(id == image_id).first(); <<>> is None
get_image_metadata(table, image_id) ==
    IF \E x \in table : x.id = image_id
    THEN <<CHOOSE x \in table : x.id = image_id>>
    ELSE <<>>

\* database.get_db: db = SessionLocal() makes a new session object
SessionLocal ==
    Min({s \in 1..(2 * NumReqs) :
            s \notin sessions /\ \A r \in Reqs : req[r].db # s})

\* (faulty variant: close after the yield, without try/finally)
get_db_close_on_success(open, db, status) == IF status = 200 THEN open \ {db} ELSE open
\* database.get_db: the finally block, db.close()
get_db_close(open, db, status) == open \ {db}

(************************** request slots *********************************)
\* pc: idle -> (handler steps) -> exit (the handler has returned or raised,
\* the response is fixed) -> done (get_db has finished); a slot that is idle
\* or done takes the next request.
Idle ==
    [pc |-> "idle", op |-> "none",
     filename |-> <<>>, content |-> <<>>, uploader_name |-> NULL, location |-> NULL,
     skip |-> 0, limit |-> 0, image_id |-> 0,
     db |-> 0, unique_filename |-> <<>>, row_id |-> 0, ts |-> 0,
     status |-> 0, detail |-> "", body |-> <<>>,
     visible |-> {}, raised |-> FALSE]

\* the handler returns `body`: 200 with the response_model
Return(q, body) == [q EXCEPT !.pc = "exit", !.status = 200, !.body = body]

\* raise HTTPException(status_code, detail)
HTTPException(q, status_code, detail) ==
    [q EXCEPT !.pc = "exit", !.status = status_code, !.detail = detail]

\* an exception no handler catches: the server answers 500
Unhandled(q) ==
    [q EXCEPT !.pc = "exit", !.status = 500, !.detail = "Internal Server Error",
              !.raised = TRUE]

\* (faulty variant: the error is logged and the handler goes on)
save_failed_swallowed(q, e) == [q EXCEPT !.pc = "create"]
\* main.upload_image_and_metadata, except clause of step 1
save_failed(q, e) == HTTPException(q, 500, "Failed to save image file: " \o e)

\* main.upload_image_and_metadata, except clause of step 2
create_failed(q, e) == HTTPException(q, 500, "Failed to create image metadata: " \o e)

\* (faulty variant: no check for None)
by_id_result_unchecked(q, db_image) == Return(q, db_image)
\* main.get_image_metadata_by_id, lines 138-145
by_id_result(q, db_image) ==
    IF db_image = <<>>
    THEN HTTPException(q, 404, "Image not found")
    ELSE Return(q, db_image)

Init ==
    /\ store = {}
    /\ nextId = 1
    /\ now = 0
    /\ files = <<>>
    /\ issued = {}
    /\ sessions = {}
    /\ req = [r \in Reqs |-> Idle]
    /\ created = {}

(*************************** database.get_db ******************************)
\* get_db up to the yield: the request gets the session SessionLocal() makes
Enter(r) ==
    /\ req[r].pc \in {"idle", "done"}
    /\ sessions' = sessions \cup {SessionLocal}
    /\ UNCHANGED <<store, nextId, now, files, issued, created>>

\* get_db after the yield, once the handler has returned or raised; the
\* slot keeps the outcome of the request
get_db_exit(r) ==
    /\ req[r].pc = "exit"
    /\ sessions' = get_db_close(sessions, req[r].db, req[r].status)
    /\ req' = [req EXCEPT ![r] =
                 [Idle EXCEPT !.pc = "done", !.status = req[r].status,
                              !.raised = req[r].raised]]
    /\ UNCHANGED <<store, nextId, now, files, issued, created>>

(************************ POST /upload ************************************)
\* main.upload_image_and_metadata is entered with the multipart form
upload_image_and_metadata(r) ==
    /\ Enter(r)
    /\ \E form \in Forms :
        req' = [req EXCEPT ![r] =
                  [Idle EXCEPT !.pc = "save_open", !.op = "upload", !.db = SessionLocal,
                               !.filename = form.filename, !.content = form.content,
                               !.uploader_name = form.uploader_name,
                               !.location = form.location]]

\* crud.save_image_file up to `await upload_file.seek(0)`: the name is
\* generated and the file is opened for writing
save_image_file_open(r) ==
    /\ req[r].pc = "save_open"
    /\ \E u \in uuid4(issued) :
        LET name == unique_filename(u, req[r].filename) IN
        /\ issued' = issued \cup {u}
        /\ \/ /\ files' = open_wb(files, name)
              /\ req' = [req EXCEPT ![r].pc = "save_copy", ![r].unique_filename = name]
           \/ /\ files' = files
              /\ req' = [req EXCEPT ![r] =
                          save_failed([req[r] EXCEPT !.unique_filename = name], "open")]
    /\ UNCHANGED <<store, nextId, now, sessions, created>>

\* crud.save_image_file from the copy to the return (or the re-raise)
save_image_file_copy(r) ==
    /\ req[r].pc = "save_copy"
    /\ \/ /\ files' = copyfileobj(files, req[r].unique_filename, req[r].content)
          /\ req' = [req EXCEPT ![r].pc = "create"]
       \/ /\ \E part \in PartialWrites(req[r].content) :
                files' = copyfileobj(files, req[r].unique_filename, part)
          /\ req' = [req EXCEPT ![r] = save_failed(req[r], "write")]
    /\ UNCHANGED <<store, nextId, now, issued, sessions, created>>

\* crud.create_image_metadata, db.add and the start of db.commit: the
\* session opens its transaction (BEGIN); func.now() is the time of this
\* moment
create_image_metadata_begin(r) ==
    /\ req[r].pc = "create"
    /\ \/ \E t \in now..MaxClock :
            /\ now' = t
            /\ req' = [req EXCEPT ![r].pc = "insert", ![r].ts = t]
       \/ /\ now' = now
          /\ req' = [req EXCEPT ![r] = create_failed(req[r], "begin")]
    /\ UNCHANGED <<store, nextId, files, issued, sessions, created>>

\* the row that request q inserts: models.ImageMetadata(...) of crud.py:55-61
\* with the id and the timestamp the database gave it
db_image(q) ==
    ImageMetadata(q.row_id, q.unique_filename, q.filename,
                  q.uploader_name, q.location, q.ts)

\* the rows that transactions of other requests have inserted and not yet
\* committed; an INSERT that collides with one of them waits for its outcome
uncommitted(r) == {db_image(req[q]) : q \in {q \in Reqs \ {r} : req[q].pc = "commit"}}

\* crud.create_image_metadata, db.commit, the flush: INSERT with the next
\* value of the id sequence. The row is not visible to other sessions yet.
\* A failed INSERT stores nothing; the sequence may have handed out its
\* value all the same.
create_image_metadata_insert(r) ==
    /\ req[r].pc = "insert"
    /\ \/ /\ ~violates_unique(store \cup uncommitted(r),
                                [db_image(req[r]) EXCEPT !.id = nextId])
          /\ nextId' = nextId + 1
          /\ req' = [req EXCEPT ![r].pc = "commit", ![r].row_id = nextId]
       \/ /\ \E n \in {nextId, nextId + 1} : nextId' = n
          /\ req' = [req EXCEPT ![r] = create_failed(req[r], "insert")]
    /\ UNCHANGED <<store, now, files, issued, sessions, created>>

\* crud.create_image_metadata, db.commit, the COMMIT: from here on every
\* session sees the row. When the database rejects the COMMIT nothing is
\* stored; when the connection breaks during the COMMIT the client gets an
\* error and the transaction may have been committed or not.
create_image_metadata_commit(r) ==
    /\ req[r].pc = "commit"
    /\ \/ /\ store' = insert(store, db_image(req[r]))
          /\ req' = [req EXCEPT ![r].pc = "refresh"]
       \/ /\ store' = store
          /\ req' = [req EXCEPT ![r] = create_failed(req[r], "commit")]
       \/ /\ \E t \in {store, insert(store, db_image(req[r]))} : store' = t
          /\ req' = [req EXCEPT ![r] = create_failed(req[r], "connection")]
    /\ UNCHANGED <<nextId, now, files, issued, sessions, created>>

\* crud.create_image_metadata, db.refresh and the return, then main.py:88-98
create_image_metadata_refresh(r) ==
    /\ req[r].pc = "refresh"
    /\ \/ /\ req' = [req EXCEPT ![r] =
                      Return(req[r], get_image_metadata(store, req[r].row_id))]
          /\ created' = created \cup
                {[rec |-> get_image_metadata(store, req[r].row_id)[i],
                  uploader_name |-> req[r].uploader_name,
                  location |-> req[r].location]
                   : i \in 1..Len(get_image_metadata(store, req[r].row_id))}
       \/ /\ req' = [req EXCEPT ![r] = create_failed(req[r], "refresh")]
          /\ created' = created
    /\ UNCHANGED <<store, nextId, now, files, issued, sessions>>

(************************ GET /images/ ************************************)
list_images_metadata(r) ==
    /\ Enter(r)
    /\ \E s \in 0..MaxPage, l \in 1..MaxPage :
        req' = [req EXCEPT ![r] =
                  [Idle EXCEPT !.pc = "list_query", !.op = "list", !.db = SessionLocal,
                               !.skip = s, !.limit = l]]

\* the ids of the committed rows, which is what a query sees
committed_ids == {x.id : x \in store}

\* crud.get_images_metadata called from main.py:114, and the return;
\* `visible` remembers the ids that were committed at the time of the query
list_images_metadata_query(r) ==
    /\ req[r].pc = "list_query"
    /\ \/ \E images \in get_images_metadata(store, req[r].skip, req[r].limit) :
            req' = [req EXCEPT ![r] = Return([req[r] EXCEPT !.visible = committed_ids], images)]
       \/ req' = [req EXCEPT ![r] = Unhandled([req[r] EXCEPT !.visible = committed_ids])]
    /\ UNCHANGED <<store, nextId, now, files, issued, sessions, created>>

(************************ GET /images/{image_id} **************************)
get_image_metadata_by_id(r) ==
    /\ Enter(r)
    /\ \E i \in 1..(NumUuids + 1) :
        req' = [req EXCEPT ![r] =
                  [Idle EXCEPT !.pc = "get_query", !.op = "get", !.db = SessionLocal,
                               !.image_id = i]]

\* crud.get_image_metadata called from main.py:135, and lines 138-145
get_image_metadata_by_id_query(r) ==
    /\ req[r].pc = "get_query"
    /\ \/ req' = [req EXCEPT ![r] =
                    by_id_result([req[r] EXCEPT !.visible = committed_ids],
                                 get_image_metadata(store, req[r].image_id))]
       \/ req' = [req EXCEPT ![r] = Unhandled([req[r] EXCEPT !.visible = committed_ids])]
    /\ UNCHANGED <<store, nextId, now, files, issued, sessions, created>>

Next ==
    \E r \in Reqs :
        \/ upload_image_and_metadata(r)
        \/ save_image_file_open(r)
        \/ save_image_file_copy(r)
        \/ create_image_metadata_begin(r)
        \/ create_image_metadata_insert(r)
        \/ create_image_metadata_commit(r)
        \/ create_image_metadata_refresh(r)
        \/ list_images_metadata(r)
        \/ list_images_metadata_query(r)
        \/ get_image_metadata_by_id(r)
        \/ get_image_metadata_by_id_query(r)
        \/ get_db_exit(r)

Spec == Init /\ [][Next]_vars

TypeOK ==
    /\ nextId \in 1..(NumUuids + 1)
    /\ \A x \in store : x.id < nextId
    /\ now \in 0..MaxClock
    /\ issued \subseteq UUIDS
    /\ sessions \subseteq 1..(2 * NumReqs)

(**************************** vocabulary **********************************)
\* the response of request r is fixed and its session is still open
Returned(r, op) == req[r].op = op /\ req[r].pc = "exit"

\* the handler of r returned a value (HTTP 200)
Succeeded(r, op) == Returned(r, op) /\ req[r].status = 200

IsSuffix(e, p) == Len(e) <= Len(p) /\ SubSeq(p, Len(p) - Len(e) + 1, Len(p)) = e

\* the uploads whose stored name has been generated
Named(r) ==
    /\ req[r].op = "upload"
    /\ req[r].pc \in {"save_copy", "create", "insert", "commit", "refresh", "exit"}
    /\ req[r].unique_filename # <<>>

\* the records in a list response
Elems(seq) == {seq[i] : i \in 1..Len(seq)}

\* the details of the 500 that a failed save is answered with
SaveFailures ==
    {"Failed to save image file: open", "Failed to save image file: write"}

\* the handler of r has been entered and get_db has not finished
InFlight(r) == req[r].pc \notin {"idle", "done"}

\* what an extension of F is, said without splitext
IsExtensionOf(e, F) ==
    /\ IsSuffix(e, F)
    /\ e # <<>> =>
          /\ e[1] = "."
          /\ \A i \in 2..Len(e) : e[i] \notin {".", "/"}
          /\ Len(e) < Len(F)
          /\ \E i \in 1..(Len(F) - Len(e)) :
                F[i] # "." /\ \A j \in i..(Len(F) - Len(e)) : F[j] # "/"
    /\ e = <<>> =>
          \A i \in 2..Len(F) :
              (F[i] = "." /\ \A k \in i..Len(F) : F[k] # "/") =>
                  \A j \in 1..(i - 1) :
                      (\A k \in j..i : F[k] # "/") => F[j] = "."

\* the table held no committed row with the id when the lookup of r ran
Absent(r) == req[r].image_id \notin req[r].visible

\* the details of the 500 that a failed create_image_metadata is answered
\* with, whichever round trip raised (one except clause, main.py:89-94)
CreateFailures ==
    {"Failed to create image metadata: begin",
     "Failed to create image metadata: insert",
     "Failed to create image metadata: commit",
     "Failed to create image metadata: connection",
     "Failed to create image metadata: refresh"}

\* the records that name the stored file of request r
RecordsOf(r) == {x \in store : x.filename = req[r].unique_filename}

\* the stored file of request r is on disk with the uploaded bytes
FileWhole(r) ==
    /\ req[r].unique_filename \in DOMAIN files
    /\ files[req[r].unique_filename] = req[r].content

\* a step of a list or get request
ReadStep(r) ==
    \/ req[r].op \in {"list", "get"} /\ req'[r] # req[r]
    \/ req'[r].op \in {"list", "get"} /\ req'[r] # req[r]

\* what C9 says of one step
C9_Step ==
    /\ store \subseteq store'
    /\ \A x \in store : \A y \in store' : y.id = x.id => y = x
    /\ \A r \in Reqs : ReadStep(r) => (store' = store /\ files' = files)

(***************************************************************************)
(* C1. For every upload that completes successfully, the filename of the  *)
(* returned record differs from the filename of every other record of the *)
(* metadata store, and when the response is returned a file of that name  *)
(* exists under the upload directory with exactly the uploaded bytes.      *)
(***************************************************************************)
C1_UniqueNameAndIdenticalBytes ==
    \A r \in Reqs :
        Succeeded(r, "upload") =>
            /\ Len(req[r].body) = 1
            /\ req[r].body[1] \in store
            /\ \A x \in store :
                  x.id # req[r].body[1].id => x.filename # req[r].body[1].filename
            /\ req[r].body[1].filename \in DOMAIN files
            /\ files[req[r].body[1].filename] = req[r].content

\* an upload has succeeded while an earlier record exists
C1_Witness ==
    \E r \in Reqs :
        /\ Succeeded(r, "upload")
        /\ \E x \in store : x.id < req[r].body[1].id
        /\ req[r].content = <<2, 1>>

(***************************************************************************)
(* C2. Two concurrent uploads with the same original filename never write *)
(* to the same stored file, and when both succeed they return two distinct *)
(* stored filenames, two distinct ids, two records, and each file holds    *)
(* the bytes of its own upload.                                            *)
(***************************************************************************)
C2_ConcurrentUploadsDistinct ==
    \A r1, r2 \in Reqs :
        (r1 # r2 /\ req[r1].filename = req[r2].filename) =>
            /\ (Named(r1) /\ Named(r2)) =>
                  req[r1].unique_filename # req[r2].unique_filename
            /\ (Succeeded(r1, "upload") /\ Succeeded(r2, "upload")) =>
                  /\ req[r1].body[1].filename # req[r2].body[1].filename
                  /\ req[r1].body[1].id # req[r2].body[1].id
                  /\ {req[r1].body[1], req[r2].body[1]} \subseteq store
                  /\ {req[r1].body[1].filename, req[r2].body[1].filename}
                        \subseteq DOMAIN files
                  /\ files[req[r1].body[1].filename] = req[r1].content
                  /\ files[req[r2].body[1].filename] = req[r2].content

\* both requests are in flight at once, both succeeded, same original name,
\* different bytes
C2_Witness ==
    \E r1, r2 \in Reqs :
        /\ r1 # r2
        /\ Succeeded(r1, "upload") /\ Succeeded(r2, "upload")
        /\ req[r1].filename = req[r2].filename
        /\ req[r1].content # req[r2].content

(***************************************************************************)
(* C3. Whatever create returned for an id is what the lookup by that id    *)
(* yields in every later state, and what every later GET /images/{id}      *)
(* whose query executes returns: the same record, with uploader_name and   *)
(* location as submitted (NULL when not submitted).                        *)
(***************************************************************************)
C3_GetReturnsCreated ==
    \A c \in created :
        /\ c.rec.uploader_name = c.uploader_name
        /\ c.rec.location = c.location
        /\ get_image_metadata(store, c.rec.id) = <<c.rec>>
        /\ \A r \in Reqs :
              ( /\ Returned(r, "get")
                /\ req[r].image_id = c.rec.id
                /\ c.rec.id \in req[r].visible
                /\ ~req[r].raised ) =>
                    /\ req[r].status = 200
                    /\ req[r].body = <<c.rec>>

\* a get of a record submitted without uploader_name, answered after a
\* further upload was stored
C3_Witness ==
    \E c \in created, r \in Reqs :
        /\ Succeeded(r, "get")
        /\ req[r].image_id = c.rec.id
        /\ c.uploader_name = NULL
        /\ req[r].body = <<c.rec>>
        /\ \E x \in store : x.id # c.rec.id /\ x.id \in req[r].visible

(***************************************************************************)
(* C4 (as claimed). For N >= 1, list(skip=0, limit=N) and                  *)
(* list(skip=N, limit=N) with no create in between have no record in       *)
(* common and together contain every record of the store.                  *)
(***************************************************************************)
C4_PagesPartition ==
    \A r1, r2 \in Reqs :
        ( /\ Succeeded(r1, "list") /\ Succeeded(r2, "list")
          /\ req[r1].skip = 0
          /\ req[r1].limit >= 1
          /\ req[r2].skip = req[r1].limit
          /\ req[r2].limit = req[r1].limit
          /\ req[r1].visible = req[r2].visible ) =>
              /\ Elems(req[r1].body) \cap Elems(req[r2].body) = {}
              /\ Elems(req[r1].body) \cup Elems(req[r2].body)
                    = {x \in store : x.id \in req[r1].visible}

(***************************************************************************)
(* C5 (as claimed). A GET /images/{id} for an id that has no record        *)
(* answers 404.                                                            *)
(***************************************************************************)
C5_AbsentIs404 ==
    \A r \in Reqs :
        (Returned(r, "get") /\ Absent(r)) => req[r].status = 404

(***************************************************************************)
(* C5 (amended). A GET /images/{id} for an id that has no record never     *)
(* answers with a record; it answers 404 whenever the lookup query         *)
(* executes, and 500 only when the query itself raised.                    *)
(***************************************************************************)
C5_AbsentIs404UnlessQueryFails ==
    /\ \A i \in 0..(NumUuids + 1) :
          (\A x \in store : x.id # i) => get_image_metadata(store, i) = <<>>
    /\ \A r \in Reqs :
          (Returned(r, "get") /\ Absent(r)) =>
              /\ req[r].body = <<>>
              /\ req[r].status \in {404, 500}
              /\ req[r].status = 500 <=> req[r].raised

\* a 404 for id 1 from a query that saw record 2: the insert that took id 1
\* from the sequence was committed only after the query
C5_Witness ==
    \E r \in Reqs :
        /\ Returned(r, "get")
        /\ req[r].status = 404
        /\ Absent(r)
        /\ req[r].visible # {}
        /\ \A i \in req[r].visible : req[r].image_id < i
        /\ req[r].image_id \in committed_ids

(***************************************************************************)
(* C6 (as claimed). An upload in which the file save or the metadata       *)
(* insert fails, that is every upload answered 500 by one of the two       *)
(* except clauses, adds no record: no record names its stored file, and    *)
(* after a failure of the insert the saved file is still on disk, whole.   *)
(***************************************************************************)
C6_FailedUploadAddsNoRecord ==
    \A r \in Reqs :
        (Returned(r, "upload") /\ req[r].status # 200) =>
            /\ req[r].status = 500
            /\ RecordsOf(r) = {}
            /\ req[r].detail \in CreateFailures => FileWhole(r)

(***************************************************************************)
(* C6 (amended). An upload in which the file save or create_image_metadata *)
(* fails answers 500. The insert is attempted only after the save has      *)
(* completed; a failed save adds no record; a failure of                   *)
(* create_image_metadata leaves the saved file on disk, whole, and adds no *)
(* record unless the error came once the COMMIT had been sent (connection  *)
(* lost during COMMIT, db.refresh raising): then the 500 can be answered   *)
(* with the record stored, and after a failed db.refresh it is stored.     *)
(* The only record an upload answered 500 can have added is its own row.   *)
(***************************************************************************)
C6_FailedUploadRecordOnlyIfCommitSent ==
    \A r \in Reqs :
        /\ ( /\ req[r].op = "upload"
             /\ req[r].pc \in {"create", "insert", "commit", "refresh"} ) =>
              FileWhole(r)
        /\ (Returned(r, "upload") /\ req[r].status # 200) =>
              /\ req[r].status = 500
              /\ req[r].detail \in SaveFailures \cup CreateFailures
              /\ RecordsOf(r) \subseteq {db_image(req[r])}
              /\ req[r].detail \in SaveFailures =>
                    /\ req[r].row_id = 0
                    /\ RecordsOf(r) = {}
              /\ req[r].detail \in CreateFailures =>
                    /\ FileWhole(r)
                    /\ RecordsOf(r) # {} =>
                          req[r].detail \in
                              {"Failed to create image metadata: connection",
                               "Failed to create image metadata: refresh"}
                    /\ req[r].detail = "Failed to create image metadata: refresh" =>
                          RecordsOf(r) = {db_image(req[r])}

\* one upload is answered 500 after db.refresh raised, its record stored;
\* another is answered 500 after the database rejected its COMMIT, its file
\* an orphan; a failed save has left a partial file before
C6_Witness ==
    \E r1, r2 \in Reqs :
        /\ Returned(r1, "upload")
        /\ req[r1].detail = "Failed to create image metadata: refresh"
        /\ store = {db_image(req[r1])}
        /\ Returned(r2, "upload")
        /\ req[r2].detail = "Failed to create image metadata: commit"
        /\ FileWhole(r2)
        /\ RecordsOf(r2) = {}

(***************************************************************************)
(* C7. Every record of the metadata store has exactly one file on disk,    *)
(* named by its filename, and no other record names that file.             *)
(***************************************************************************)
C7_EveryRecordHasItsFile ==
    \A x \in store :
        /\ x.filename \in DOMAIN files
        /\ Cardinality({y \in store : y.filename = x.filename}) = 1

\* a record with its file, next to a file that a failed upload left behind
\* and that no record names, with a list being answered
C7_Witness ==
    /\ store # {}
    /\ \E n \in DOMAIN files : \A x \in store : x.filename # n
    /\ \E r \in Reqs : req[r].pc = "done" /\ req[r].status = 500
    /\ \E r \in Reqs : Succeeded(r, "list") /\ Len(req[r].body) = 1

(***************************************************************************)
(* C8. Every request in flight has a database session of its own, open    *)
(* until the handler has returned or raised; once get_db has finished, no *)
(* session of a completed request is open, whatever the outcome was.       *)
(***************************************************************************)
C8_SessionPerRequestClosedOnCompletion ==
    /\ \A r \in Reqs : InFlight(r) => req[r].db \in sessions
    /\ \A r1, r2 \in Reqs : (r1 # r2 /\ InFlight(r1) /\ InFlight(r2)) =>
          req[r1].db # req[r2].db
    /\ \A s \in sessions : \E r \in Reqs : InFlight(r) /\ req[r].db = s

\* one request ended with an exception no handler caught, one with an
\* HTTPException, and no session is open
C8_Witness ==
    \E r1, r2 \in Reqs :
        /\ req[r1].pc = "done" /\ req[r1].status = 500 /\ req[r1].raised
        /\ req[r2].pc = "done" /\ req[r2].status \in {404, 500} /\ ~req[r2].raised
        /\ sessions = {}

(***************************************************************************)
(* C9. No step removes a record or changes a field of one, and the steps   *)
(* of list and get requests leave the store and the files as they are.     *)
(***************************************************************************)
C9_RecordsImmutable == [][C9_Step]_vars

\* record 1 has been committed after record 2, while a list that saw only
\* record 2 is being answered
C9_Witness ==
    /\ Cardinality(store) = 2
    /\ \E r \in Reqs :
          /\ Succeeded(r, "list")
          /\ req[r].visible = {2}
          /\ Len(req[r].body) = 1
          /\ req[r].body[1].id = 2

(***************************************************************************)
(* C10. A successful upload of file name F with optional uploader_name U   *)
(* and location L returns original_filename = F, uploader_name = U,        *)
(* location = L, an id taken from the id sequence and an upload_timestamp  *)
(* read from the database clock, and a filename that is a generated uuid   *)
(* followed by the extension of F and nothing else, different from F.      *)
(***************************************************************************)
C10_ReturnedRecord ==
    \A r \in Reqs :
        Succeeded(r, "upload") =>
            /\ Len(req[r].body) = 1
            /\ LET rec == req[r].body[1] IN
                /\ rec.original_filename = req[r].filename
                /\ rec.uploader_name = req[r].uploader_name
                /\ rec.location = req[r].location
                /\ rec.id \in 1..(nextId - 1)
                /\ rec.upload_timestamp \in 0..now
                /\ Len(rec.filename) >= 1
                /\ rec.filename[1] \in issued
                /\ IsExtensionOf(Tail(rec.filename), req[r].filename)
                /\ rec.filename # req[r].filename

\* a successful upload of a name with an extension and no optional field,
\* after one of a hidden file (no extension)
C10_Witness ==
    \E r \in Reqs :
        /\ Succeeded(r, "upload")
        /\ req[r].filename = <<"c", ".", "j">>
        /\ req[r].uploader_name = NULL
        /\ req[r].body[1].filename = <<"u2", ".", "j">>
        /\ \E x \in store : x.original_filename = <<".", "j">> /\ x.filename = <<"u1">>
====
